---- MODULE Spec2Model ----
(***************************************************************************)
(* Transaction construction and preflight validation of the bridge's eth   *)
(* adapter: tokens/eth/buildtx.go (BuildRawTransaction, setDefaults,       *)
(* buildTx, the retried RPC accessors, the payload builders and the        *)
(* balance checks).                                                        *)
(*                                                                         *)
(* A build is one run of b.BuildRawTransaction(args), from its call to its *)
(* return.  It blocks at every RPC attempt, so one attempt is one step,    *)
(* and everything the handler does between two attempts belongs to the     *)
(* step of the attempt that precedes it.                                   *)
(*                                                                         *)
(* Amounts (big.Int, in wei) are records [hi, lo] that stand for           *)
(* hi * 10^16 + lo with lo < 10^16: the reserve fee 1e16 is exact          *)
(* although the model checker's integers are 32 bits wide.                 *)
(***************************************************************************)
EXTENDS Integers, Sequences, FiniteSets, TLC

VARIABLES
  args,      \* args[p]: the tokens.BuildTxArgs build p works on (by pointer)
  args0,     \* history: args[p] as the caller supplied it
  isSrc,     \* isSrc[p]: b.IsSrc of the bridge build p runs on
  pc,        \* pc[p]: where build p stands
  loc,       \* loc[p]: locals of the build
  rpc,       \* rpc[p]: the retried RPC operation in progress or last finished
  ret,       \* ret[p]: what BuildRawTransaction returned
  swapNonce, \* nonce sequencer: signer -> last nonce issued (-1: none yet)
  issued,    \* history: the nonces resolved for builds whose sender is the
             \* pair's custodial signer, in order: [swap, nonce]
  calls,     \* number of BuildRawTransaction calls made so far
  failsLeft, \* attempts the RPC gateway may still fail (-1: any number)
  handOff    \* TRUE: the caller takes intent and result away at the return,
             \* only the histories remain of a build that has returned

vars == <<args, args0, isSrc, pc, loc, rpc, ret, swapNonce, issued, calls,
          failsLeft, handOff>>

----------------------------------------------------------------------------
(* Bounds of the model *)

NumProcs == 2      \* builds that may run at the same time
MaxCalls == 2      \* BuildRawTransaction calls in one behaviour of ConcSpec
MaxFails == 1      \* failed RPC attempts in one behaviour of ConcSpec

Procs == 1..NumProcs

----------------------------------------------------------------------------
(* Values *)

\* Go pointers: <<>> is nil, <<x>> points to x
Nil == <<>>
Some(x) == <<x>>
IsNil(o) == o = <<>>
Val(o) == o[1]

\* big.Int amounts
Amt(h, l) == [hi |-> h, lo |-> l]
Zero == Amt(0, 0)
AmtAdd(a, b) == Amt(a.hi + b.hi, a.lo + b.lo)
AmtLess(a, b) == a.hi < b.hi \/ (a.hi = b.hi /\ a.lo < b.lo)
AmtSign(a) == IF a.hi > 0 \/ a.lo > 0 THEN 1 ELSE 0
\* a - n wei, floored at zero (n below 10^9; used by the value converter only)
AmtSubLo(a, n) ==
  IF a.lo >= n THEN Amt(a.hi, a.lo - n)
  ELSE IF a.hi > 0 THEN Amt(a.hi - 1, 0) ELSE Zero

\* tokens.SwapType
NoSwapType == "NoSwapType"
SwapinType == "SwapinType"
SwapoutType == "SwapoutType"

\* errors: kind says which error, cause the RPC error it carries ("" if none)
Err(k, c) == [kind |-> k, cause |-> c]
NoErr == Err("", "")
ErrUnknownPairID == Err("ErrUnknownPairID", "")
ErrBuildSwapTxInWrongEndpoint == Err("ErrBuildSwapTxInWrongEndpoint", "")
ErrForbidInput == Err("forbid build raw swap tx with input data", "")
ErrSwapinAddress == Err("can not swapin to empty or invalid address", "")
ErrSwapoutAddress == Err("can not swapout to empty or invalid address", "")
ErrTokenBalance == Err("not enough token balance", "")
ErrCoinBalance == Err("not enough coin balance", "")
ErrGetBalance(e) == Err("get balance error", e.cause)
ErrRPC(c) == Err("rpc", c)

----------------------------------------------------------------------------
(* Program constants: buildtx.go lines 16-22 *)

retryRPCCount == 3
defGasLimit == 90000
defReserveGasFee == Amt(1, 0)   \* big.NewInt(1e16), 0.01 ETH

----------------------------------------------------------------------------
(* Collaborators of the build that live outside buildtx.go: the pair       *)
(* configuration registry, the value converter, the address and hash       *)
(* parsers, the ABI packer and the nonce sequencer.                        *)

\* b.GetTokenConfig: two configured pairs that share the custodial signer,
\* a token pair and a native-coin pair; any other pair id is unknown
DcrmAddress == "0xDC"
TokenConfigs ==
  [ERC |-> [ContractAddress |-> "0xC0", DcrmAddress |-> DcrmAddress,
            IsErc20 |-> TRUE, PlusGasPricePercentage |-> 10,
            DefaultGasLimit |-> 0],
   COIN |-> [ContractAddress |-> "", DcrmAddress |-> DcrmAddress,
             IsErc20 |-> FALSE, PlusGasPricePercentage |-> 0,
             DefaultGasLimit |-> 21000]]
GetTokenConfig(pairID) ==
  IF pairID \in DOMAIN TokenConfigs THEN Some(TokenConfigs[pairID]) ELSE Nil

\* tokens.CalcSwappedValue(pairID, value, isSrc): the swap fee is taken off,
\* a different fee in each direction
SwapinFee == 3
SwapoutFee == 5
CalcSwappedValue(pairID, value, intoDst) ==
  AmtSubLo(value, IF intoDst THEN SwapinFee ELSE SwapoutFee)

\* common.HexToAddress: the 20 bytes a string parses to (invalid hex parses
\* to the bytes before the first bad digit, the empty string to no bytes)
ZeroAddress == "00"
HexToAddress(s) ==
  CASE s = "0xB1" -> "B1"
    [] s = "0xB1zz" -> "B1"
    [] s = "0xA1" -> "A1"
    [] s = "0xC0" -> "C0"
    [] s = "0xDC" -> "DC"
    [] s = "0xEE" -> "EE"
    [] OTHER -> ZeroAddress
\* common.IsHexAddress: 40 hex digits after an optional 0x
IsHexAddress(s) == s \in {"0xB1", "0xA1", "0xC0", "0xDC", "0xEE", "0x00"}
\* common.HexToHash
HexToHash(s) == IF s = "0x51" THEN "h51" ELSE "h00"

\* PackDataWithFuncHash(funcHash, args...): the packed call; a payload is
\* [fn, hash, addr, amount, memo]
Payload(fn, hash, addr, amount, memo) ==
  [fn |-> fn, hash |-> hash, addr |-> addr, amount |-> amount, memo |-> memo]
PackDataWithFuncHash(funcHash, txHash, address, amount) ==
  Payload(funcHash, txHash, address, amount, <<>>)
getSwapinFuncHash == "Swapin"
erc20TransferFuncHash == "transfer"
\* tokens.UnlockMemoPrefix
UnlockMemoPrefix == "SWAPTO:"
\* var input []byte, never assigned
EmptyInput == Payload("", "", "", Zero, <<>>)
\* a payload the caller supplies
RawInput == Payload("raw", "", "", Zero, <<"callerdata">>)

\* params.GetIdentifier
GetIdentifier == "bridge-id"

\* b.AdjustNonce(pairID, value): the nonce sequencer. It serialises the
\* nonces of the pair's custodial signer: the observed pending nonce if it
\* is above every nonce issued, else the successor of the last one issued.
AdjustNonce(last, value) == IF last >= value THEN last + 1 ELSE value

----------------------------------------------------------------------------
(* The build, function by function.  A continuation K says how a stretch   *)
(* of the handler ends: the intent and the locals as it leaves them, where *)
(* the build blocks next (an RPC attempt) or that it returned, and what it *)
(* returned.                                                               *)

NoRet == [tx |-> Nil, err |-> NoErr]
K(a, l, at, r) == [args |-> a, loc |-> l, pc |-> at, ret |-> r]
Block(a, l, at) == K(a, l, at, NoRet)
Return(a, l, e) == K(a, l, "done", [tx |-> Nil, err |-> e])
ReturnTx(a, l, tx) == K(a, l, "done", [tx |-> Some(tx), err |-> NoErr])

InitLoc ==
  [input |-> Nil,      \* input of BuildRawTransaction
   amount |-> Zero,    \* amount of buildErc20SwapoutTxInput
   value |-> Zero,     \* value of buildTx
   gasFee |-> Zero,    \* gasFee of buildTx
   tokBal |-> Nil,     \* balance read by checkTokenBalance
   bal |-> Nil,        \* balance read by checkCoinBalance
   need |-> Zero,      \* needValue of checkCoinBalance
   pending |-> Nil,    \* nonce read by getAccountNonce
   suggested |-> Nil,  \* price read by getGasPrice
   packed |-> FALSE,   \* history: an earlier build on this intent has packed
                       \* a payload into it
   seqCalls |-> 0,     \* history: AdjustNonce calls of this build
   order |-> <<>>]     \* history: the external steps of this build, in order

\* types.NewTransaction
NewTransaction(nonce, to, value, gasLimit, gasPrice, input) ==
  [nonce |-> nonce, to |-> to, value |-> value, gasLimit |-> gasLimit,
   gasPrice |-> gasPrice, input |-> input]

\* checkCoinBalance, lines 298-304: needValue
NeedValueNoValue(value, gasFee) ==
  IF AmtSign(gasFee) > 0 THEN gasFee ELSE Zero
NeedValue(value, gasFee) ==
  AmtAdd(IF AmtSign(value) > 0 THEN value ELSE Zero,
         IF AmtSign(gasFee) > 0 THEN gasFee ELSE Zero)

\* checkCoinBalance, lines 292-309, once getBalance has returned
checkCoinBalance(balance, err, value, gasFee) ==
  IF err # NoErr THEN ErrGetBalance(err)
  ELSE IF AmtLess(balance, NeedValue(value, gasFee)) THEN ErrCoinBalance
  ELSE NoErr

\* buildTx, lines 103-106: gasFee
GasFeeAlwaysProduct(swapType, gasPrice, gasLimit) ==
  Amt(0, gasPrice * gasLimit)
GasFee(swapType, gasPrice, gasLimit) ==
  IF swapType = NoSwapType THEN Amt(0, gasPrice * gasLimit)
  ELSE defReserveGasFee

\* buildTx, lines 82 and 94-96: value of a SwapOut build
TxValueFromArgs(a, cfg) == Val(a.Value)
TxValue(a, cfg) ==
  IF ~cfg.IsErc20
  THEN CalcSwappedValue(a.PairID, a.OriginValue, FALSE)
  ELSE Val(a.Value)

\* buildTx, lines 79-111, up to the call of getBalance in checkCoinBalance
buildTx(a, l) ==
  LET cfg == GetTokenConfig(a.PairID) IN
  IF a.SwapType = SwapoutType /\ IsNil(cfg) THEN Return(a, l, ErrUnknownPairID)
  ELSE
    LET value == IF a.SwapType = SwapoutType THEN TxValue(a, Val(cfg))
                 ELSE Val(a.Value)
        a1 == IF a.SwapType # NoSwapType
              THEN [a EXCEPT !.Identifier = GetIdentifier] ELSE a
        gasFee == GasFee(a.SwapType, Val(a.GasPrice), Val(a.Gas))
    IN Block(a1, [l EXCEPT !.value = value, !.gasFee = gasFee], "getBalance")

\* buildTx, lines 108-121, once getBalance has returned
buildTxEnd(a, l, balance, err) ==
  LET e == checkCoinBalance(balance, err, l.value, l.gasFee)
      l1 == IF err = NoErr
            THEN [l EXCEPT !.bal = Some(balance),
                           !.need = NeedValue(l.value, l.gasFee)]
            ELSE l
  IN IF e # NoErr THEN Return(a, l1, e)
     ELSE ReturnTx(a, l1, NewTransaction(Val(a.Nonce), HexToAddress(a.To),
                                         l.value, Val(a.Gas), Val(a.GasPrice),
                                         Val(l.input)))

\* getDefaultGasLimit, lines 187-196
getDefaultGasLimitOfConfig(pairID) ==
  LET cfg == GetTokenConfig(pairID)
  IN IF ~IsNil(cfg) THEN Val(cfg).DefaultGasLimit ELSE defGasLimit
getDefaultGasLimit(pairID) ==
  LET cfg == GetTokenConfig(pairID)
      gasLimit == IF ~IsNil(cfg) THEN Val(cfg).DefaultGasLimit ELSE 0
  IN IF gasLimit = 0 THEN defGasLimit ELSE gasLimit

\* setDefaults, lines 158-162, and the call of buildTx (line 76)
setDefaultsGas(a, l) ==
  buildTx(IF IsNil(a.Gas)
          THEN [a EXCEPT !.Gas = Some(getDefaultGasLimit(a.PairID))] ELSE a, l)

\* setDefaults, lines 152-157, up to the call of GetPoolNonce
setDefaultsNonceAlwaysFetched(a, l) == Block(a, l, "getAccountNonce")
setDefaultsNonce(a, l) ==
  IF IsNil(a.Nonce) THEN Block(a, l, "getAccountNonce")
  ELSE setDefaultsGas(a, l)

\* setDefaults, lines 139-150: the pair's markup on a suggested gas price
MarkupPriceRounded(price, addPercent) ==
  IF addPercent > 0 THEN (price * (100 + addPercent) + 50) \div 100 ELSE price
MarkupPrice(price, addPercent) ==
  IF addPercent > 0 THEN (price * (100 + addPercent)) \div 100 ELSE price

\* setDefaults, lines 135-151, once getGasPrice has returned
setDefaultsGasPriceEnd(a, l, price, err) ==
  LET l1 == [l EXCEPT !.suggested = Some(price)] IN
  IF err # NoErr THEN Return(a, l, err)
  ELSE IF a.SwapType # NoSwapType
  THEN LET cfg == GetTokenConfig(a.PairID) IN
       IF IsNil(cfg)
       THEN Return([a EXCEPT !.GasPrice = Some(price)], l1, ErrUnknownPairID)
       ELSE setDefaultsNonce(
              [a EXCEPT !.GasPrice =
                 Some(MarkupPrice(price, Val(cfg).PlusGasPricePercentage))], l1)
  ELSE setDefaultsNonce([a EXCEPT !.GasPrice = Some(price)], l1)

\* setDefaults, lines 124-134, up to the call of SuggestPrice
setDefaults(a, l) ==
  LET a1 == IF IsNil(a.Value) THEN [a EXCEPT !.Value = Some(Zero)] ELSE a
  IN IF IsNil(a1.GasPrice) THEN Block(a1, l, "getGasPrice")
     ELSE setDefaultsNonce(a1, l)

\* buildSwapinTxInput and buildErc20SwapoutTxInput, lines 236 and 257
BadBindAddress(bind) ==
  HexToAddress(bind) = ZeroAddress \/ ~IsHexAddress(bind)

\* buildSwapinTxInput, lines 231-251: [args, err]
buildSwapinTxInputOutward(a) ==
  IF BadBindAddress(a.Bind) THEN [args |-> a, err |-> ErrSwapinAddress]
  ELSE
    LET amount == CalcSwappedValue(a.PairID, a.OriginValue, FALSE)
        input == PackDataWithFuncHash(getSwapinFuncHash, HexToHash(a.SwapID),
                                      HexToAddress(a.Bind), amount)
        a1 == [a EXCEPT !.Input = Some(input)]
        token == GetTokenConfig(a.PairID)
    IN IF IsNil(token) THEN [args |-> a1, err |-> ErrUnknownPairID]
       ELSE [args |-> [a1 EXCEPT !.To = Val(token).ContractAddress],
             err |-> NoErr]
buildSwapinTxInput(a) ==
  IF BadBindAddress(a.Bind) THEN [args |-> a, err |-> ErrSwapinAddress]
  ELSE
    LET amount == CalcSwappedValue(a.PairID, a.OriginValue, TRUE)
        input == PackDataWithFuncHash(getSwapinFuncHash, HexToHash(a.SwapID),
                                      HexToAddress(a.Bind), amount)
        a1 == [a EXCEPT !.Input = Some(input)]
        token == GetTokenConfig(a.PairID)
    IN IF IsNil(token) THEN [args |-> a1, err |-> ErrUnknownPairID]
       ELSE [args |-> [a1 EXCEPT !.To = Val(token).ContractAddress],
             err |-> NoErr]

\* buildErc20SwapoutTxInput, lines 253-271, up to the call of GetErc20Balance
\* in checkTokenBalance
buildErc20SwapoutTxInput(a, l) ==
  IF BadBindAddress(a.Bind) THEN Return(a, l, ErrSwapoutAddress)
  ELSE
    LET amount == CalcSwappedValue(a.PairID, a.OriginValue, FALSE)
        input == PackDataWithFuncHash(erc20TransferFuncHash, "",
                                      HexToAddress(a.Bind), amount)
        a1 == [a EXCEPT !.Input = Some(input)]
        token == GetTokenConfig(a.PairID)
    IN IF IsNil(token) THEN Return(a1, l, ErrUnknownPairID)
       ELSE Block([a1 EXCEPT !.To = Val(token).ContractAddress],
                  [l EXCEPT !.amount = amount], "checkTokenBalance")

\* checkTokenBalance, lines 283-289, and BuildRawTransaction, lines 55-58
\* and 71-76, once the GetErc20Balance loop has ended
checkTokenBalanceEndNoCompare(a, l, balance, err) ==
  IF err # NoErr THEN Return(a, l, err)
  ELSE setDefaults(a, [l EXCEPT !.tokBal = Some(balance), !.input = a.Input])
checkTokenBalanceEnd(a, l, balance, err) ==
  IF err # NoErr THEN Return(a, l, err)
  ELSE IF AmtLess(balance, l.amount)
  THEN Return(a, [l EXCEPT !.tokBal = Some(balance)], ErrTokenBalance)
  ELSE setDefaults(a, [l EXCEPT !.tokBal = Some(balance), !.input = a.Input])

\* BuildRawTransaction, lines 41 and 50: the direction does not fit the
\* endpoint
WrongEndpointSwapinOnly(swapType, src) == swapType = SwapinType /\ src
WrongEndpoint(swapType, src) ==
  \/ swapType = SwapinType /\ src
  \/ swapType = SwapoutType /\ ~src

\* BuildRawTransaction, line 66: a raw payload is forbidden
RawInputForbiddenSwapinOnly(swapType) == swapType = SwapinType
RawInputForbiddenNever(swapType) == FALSE
RawInputForbidden(swapType) == swapType # NoSwapType

\* BuildRawTransaction, lines 25-76, up to its first RPC attempt
BuildRawTransaction(src, a, l) ==
  IF IsNil(a.Input) THEN
    LET tokenCfg == IF a.SwapType # NoSwapType
                    THEN GetTokenConfig(a.PairID) ELSE Nil
    IN IF a.SwapType # NoSwapType /\ IsNil(tokenCfg)
       THEN Return(a, l, ErrUnknownPairID)
       ELSE
         LET a1 == IF a.SwapType # NoSwapType /\ a.From = ""
                   THEN [a EXCEPT !.From = Val(tokenCfg).DcrmAddress] ELSE a
         IN CASE a.SwapType = SwapinType ->
                   IF WrongEndpoint(a.SwapType, src)
                   THEN Return(a1, l, ErrBuildSwapTxInWrongEndpoint)
                   ELSE LET r == buildSwapinTxInput(a1) IN
                        IF r.err # NoErr THEN Return(r.args, l, r.err)
                        ELSE setDefaults(r.args,
                                         [l EXCEPT !.input = r.args.Input])
              [] a.SwapType = SwapoutType ->
                   IF WrongEndpoint(a.SwapType, src)
                   THEN Return(a1, l, ErrBuildSwapTxInWrongEndpoint)
                   ELSE IF Val(tokenCfg).IsErc20
                   THEN buildErc20SwapoutTxInput(a1, l)
                   ELSE setDefaults(
                          [a1 EXCEPT !.To = a1.Bind],
                          [l EXCEPT !.input =
                             Some(Payload("", "", "", Zero,
                                          <<UnlockMemoPrefix, a1.SwapID>>))])
              [] OTHER -> setDefaults(a1, [l EXCEPT !.input = Some(EmptyInput)])
  ELSE
    IF RawInputForbidden(a.SwapType) THEN Return(a, l, ErrForbidInput)
    ELSE setDefaults(a, [l EXCEPT !.input = a.Input])

\* getAccountNonce, lines 221-226: the nonce goes through the sequencer
UseSequencerNever(pairID, from, swapType) == FALSE
UseSequencerSwapinOnly(pairID, from, swapType) ==
  /\ swapType = SwapinType
  /\ ~IsNil(GetTokenConfig(pairID))
  /\ from = Val(GetTokenConfig(pairID)).DcrmAddress
UseSequencer(pairID, from, swapType) ==
  /\ swapType # NoSwapType
  /\ ~IsNil(GetTokenConfig(pairID))
  /\ from = Val(GetTokenConfig(pairID)).DcrmAddress

\* the retry loops, lines 166-172, 199-205, 211-217 and 276-282: the loop
\* variable is i, an attempt has just succeeded (ok) or failed
LoopEndsOneMore(i, ok) == ok \/ i + 1 >= retryRPCCount + 1
LoopEndsOnSuccess(i, ok) == ok
LoopEnds(i, ok) == ok \/ i + 1 >= retryRPCCount
\* err after an attempt (err is assigned by every attempt)
LoopErr(err, e) == e

----------------------------------------------------------------------------
(* The environment: the intents callers supply and what the RPC gateway    *)
(* answers.                                                                *)

PairIDs == {"ERC", "COIN", "BAD"}
Senders == {"", DcrmAddress, "0xEE"}
BindAddresses == {"0xB1", "0x00", "", "0xB1zz"}

Intent(pairID, swapType, from, bind, value, input, gasPrice, nonce, gas) ==
  [PairID |-> pairID, SwapID |-> "0x51", SwapType |-> swapType,
   From |-> from, To |-> "0xA1", Bind |-> bind, Value |-> value,
   OriginValue |-> Amt(0, 40), Input |-> input, GasPrice |-> gasPrice,
   Nonce |-> nonce, Gas |-> gas, Identifier |-> ""]

\* the intents of a single build: swaps with any bind address, plain
\* transactions with one or none
Intents ==
  {Intent(pr, st, fr, bd, v, inp, gp, n, g) :
     pr \in PairIDs, st \in {SwapinType, SwapoutType},
     fr \in Senders, bd \in BindAddresses,
     v \in {Nil, Some(Amt(0, 30))}, inp \in {Nil, Some(RawInput)},
     gp \in {Nil, Some(10)}, n \in {Nil, Some(7)}, g \in {Nil, Some(1)}}
  \cup
  {Intent(pr, NoSwapType, fr, bd, v, inp, gp, n, g) :
     pr \in PairIDs, fr \in Senders, bd \in {"0xB1", ""},
     v \in {Nil, Some(Amt(0, 30))}, inp \in {Nil, Some(RawInput)},
     gp \in {Nil, Some(10)}, n \in {Nil, Some(7)}, g \in {Nil, Some(1)}}

\* the concurrent builds, <<IsSrc, intent>>: a swap-in on the destination
\* endpoint, a swap-out on the origin endpoint and a plain transaction, all
\* three sent by the custodial signer with the nonce left unset; the
\* swap-out is of the token pair with the gas price left unset, so that it
\* also fetches the token balance and the gas price
ConcBuilds ==
  {<<FALSE, Intent("COIN", SwapinType, "", "0xB1", Nil, Nil, Some(10), Nil,
                   Some(1))>>,
   <<TRUE, Intent("ERC", SwapoutType, "", "0xB1", Nil, Nil, Nil, Nil,
                  Some(1))>>,
   <<TRUE, Intent("COIN", NoSwapType, DcrmAddress, "0xB1", Nil, Nil, Some(10),
                  Nil, Some(1))>>}

\* the intents of builds made one after the other: every direction on both
\* pairs, sent by the custodial signer or by another account, the nonce left
\* unset
SeqIntents ==
  {Intent(pr, st, fr, "0xB1", Nil, Nil, gp, Nil, Some(1)) :
     pr \in {"ERC", "COIN"}, st \in {NoSwapType, SwapinType, SwapoutType},
     fr \in Senders, gp \in {Nil, Some(10)}}

RPCErrors == {ErrRPC("timeout"), ErrRPC("refused")}
TokenBalances == {Amt(0, 34), Amt(0, 35)}
SuggestedPrices == {99, 100}
PendingNonces == {0, 1}
CoinBalances == {Amt(0, 39), Amt(0, 100), Amt(1, 34), Amt(1, 35)}

\* what one attempt of an RPC may answer: a value, or an error
Answers(values) ==
  {[ok |-> TRUE, val |-> v, err |-> NoErr] : v \in values}
  \cup {[ok |-> FALSE, val |-> CHOOSE v \in values : TRUE, err |-> e] :
          e \in IF failsLeft # 0 THEN RPCErrors ELSE {}}

----------------------------------------------------------------------------
(* The state machine *)

\* a retried operation that has ended: the attempts it made, the error it
\* returned and (history) the error of its last attempt
NoFin == [op |-> "", attempts |-> 0, err |-> NoErr, last |-> NoErr]
\* the retried operation a build blocks in; fin: the one that ended last
RpcAt(op, fin) ==
  [op |-> op, i |-> 0, err |-> NoErr, last |-> NoErr, fin |-> fin]
InitRpc == RpcAt("", NoFin)

\* one more attempt of the loop has answered
AfterAttempt(r, o) ==
  [r EXCEPT !.i = @ + 1, !.err = LoopErr(@, o.err), !.last = o.err,
            !.fin = NoFin]
\* the loop has ended
Fin(r) ==
  [op |-> r.op, attempts |-> r.i, err |-> r.err, last |-> r.last]

IdleArgs == Intent("", NoSwapType, "", "", Nil, Nil, Nil, Nil, Nil)

InitBuilds ==
  /\ args = [p \in Procs |-> IdleArgs]
  /\ args0 = [p \in Procs |-> IdleArgs]
  /\ isSrc = [p \in Procs |-> FALSE]
  /\ pc = [p \in Procs |-> "idle"]
  /\ loc = [p \in Procs |-> InitLoc]
  /\ rpc = [p \in Procs |-> InitRpc]
  /\ ret = [p \in Procs |-> NoRet]
  /\ swapNonce = [s \in {DcrmAddress} |-> -1]
  /\ issued = <<>>
  /\ calls = 0

\* the gateway has answered o
Answered(o) ==
  failsLeft' = IF ~o.ok /\ failsLeft > 0 THEN failsLeft - 1 ELSE failsLeft

\* build p goes on as the continuation k says; fin is the retried operation
\* that has just ended, if any
Continue(p, k, fin) ==
  IF k.pc = "done" /\ handOff
  THEN /\ args' = [args EXCEPT ![p] = IdleArgs]
       /\ args0' = [args0 EXCEPT ![p] = IdleArgs]
       /\ isSrc' = [isSrc EXCEPT ![p] = FALSE]
       /\ pc' = [pc EXCEPT ![p] = "idle"]
       /\ loc' = [loc EXCEPT ![p] = InitLoc]
       /\ rpc' = [rpc EXCEPT ![p] = InitRpc]
       /\ ret' = [ret EXCEPT ![p] = NoRet]
  ELSE /\ args' = [args EXCEPT ![p] = k.args]
       /\ UNCHANGED <<args0, isSrc>>
       /\ pc' = [pc EXCEPT ![p] = k.pc]
       /\ loc' = [loc EXCEPT ![p] =
                    IF k.pc = "done" THEN k.loc
                    ELSE [k.loc EXCEPT !.order = Append(@, k.pc)]]
       /\ rpc' = [rpc EXCEPT ![p] =
                    RpcAt(IF k.pc = "done" THEN "" ELSE k.pc, fin)]
       /\ ret' = [ret EXCEPT ![p] = k.ret]

\* the loop of build p goes round once more
Retry(p, r) ==
  /\ rpc' = [rpc EXCEPT ![p] = r]
  /\ UNCHANGED <<args, args0, isSrc, pc, loc, ret, swapNonce, issued>>

\* b.BuildRawTransaction(args) is called on the bridge with IsSrc = src
Call(p, src, a) ==
  /\ pc[p] \in {"idle", "done"}
  /\ calls < MaxCalls
  /\ calls' = calls + 1
  /\ LET k == BuildRawTransaction(src, a, InitLoc) IN
     IF k.pc = "done" /\ handOff THEN Continue(p, k, NoFin)
     ELSE /\ args' = [args EXCEPT ![p] = k.args]
          /\ args0' = [args0 EXCEPT ![p] = a]
          /\ isSrc' = [isSrc EXCEPT ![p] = src]
          /\ pc' = [pc EXCEPT ![p] = k.pc]
          /\ loc' = [loc EXCEPT ![p] =
                       IF k.pc = "done" THEN k.loc
                       ELSE [k.loc EXCEPT !.order = Append(@, k.pc)]]
          /\ rpc' = [rpc EXCEPT ![p] =
                       RpcAt(IF k.pc = "done" THEN "" ELSE k.pc, NoFin)]
          /\ ret' = [ret EXCEPT ![p] = k.ret]
  /\ UNCHANGED <<swapNonce, issued, failsLeft, handOff>>

\* the build that was given intent a0 and has left it as a has packed a
\* payload into it (lines 243 and 264)
PayloadPacked(a0, a) ==
  a0.SwapType # NoSwapType /\ IsNil(a0.Input) /\ ~IsNil(a.Input)

\* b.BuildRawTransaction(args) is called again, on the intent the build of p
\* has returned from, as that build left it
Recall(p, src) ==
  /\ pc[p] = "done"
  /\ calls < MaxCalls
  /\ calls' = calls + 1
  /\ LET l0 == [InitLoc EXCEPT !.packed =
                  loc[p].packed \/ PayloadPacked(args0[p], args[p])]
         k == BuildRawTransaction(src, args[p], l0)
     IN /\ args' = [args EXCEPT ![p] = k.args]
        /\ args0' = [args0 EXCEPT ![p] = args[p]]
        /\ isSrc' = [isSrc EXCEPT ![p] = src]
        /\ pc' = [pc EXCEPT ![p] = k.pc]
        /\ loc' = [loc EXCEPT ![p] =
                     IF k.pc = "done" THEN k.loc
                     ELSE [k.loc EXCEPT !.order = Append(@, k.pc)]]
        /\ rpc' = [rpc EXCEPT ![p] =
                     RpcAt(IF k.pc = "done" THEN "" ELSE k.pc, NoFin)]
        /\ ret' = [ret EXCEPT ![p] = k.ret]
  /\ UNCHANGED <<swapNonce, issued, failsLeft, handOff>>

\* one attempt of the loop in checkTokenBalance (lines 276-282)
CheckTokenBalanceAttempt(p) ==
  /\ pc[p] = "checkTokenBalance"
  /\ \E o \in Answers(TokenBalances) :
       LET r == AfterAttempt(rpc[p], o) IN
       /\ Answered(o)
       /\ IF LoopEnds(rpc[p].i, o.ok)
          THEN /\ Continue(p, checkTokenBalanceEnd(args[p], loc[p], o.val,
                                                  r.err), Fin(r))
               /\ UNCHANGED <<swapNonce, issued>>
          ELSE Retry(p, r)
  /\ UNCHANGED <<calls, handOff>>

\* one attempt of the loop in getGasPrice (lines 199-205)
GetGasPriceAttempt(p) ==
  /\ pc[p] = "getGasPrice"
  /\ \E o \in Answers(SuggestedPrices) :
       LET r == AfterAttempt(rpc[p], o) IN
       /\ Answered(o)
       /\ IF LoopEnds(rpc[p].i, o.ok)
          THEN /\ Continue(p, setDefaultsGasPriceEnd(args[p], loc[p], o.val,
                                                    r.err), Fin(r))
               /\ UNCHANGED <<swapNonce, issued>>
          ELSE Retry(p, r)
  /\ UNCHANGED <<calls, handOff>>

\* getAccountNonce, lines 218-227, once the GetPoolNonce loop has ended with
\* the pending nonce: [nonce, seq], seq saying that the sequencer was called
getAccountNonceEndRaw(a, pending, last) ==
  [nonce |-> pending, seq |-> UseSequencer(a.PairID, a.From, a.SwapType)]
getAccountNonceEnd(a, pending, last) ==
  IF UseSequencer(a.PairID, a.From, a.SwapType)
  THEN [nonce |-> AdjustNonce(last, pending), seq |-> TRUE]
  ELSE [nonce |-> pending, seq |-> FALSE]

\* the sender of intent a is the custodial signer of a's pair
Custodial(a) ==
  /\ ~IsNil(GetTokenConfig(a.PairID))
  /\ a.From = Val(GetTokenConfig(a.PairID)).DcrmAddress

\* one attempt of the loop in getAccountNonce (lines 211-217); the attempt
\* that ends the loop goes on to lines 218-227: the fetched nonce is a local
\* of the build, so the sequencer call commutes with the other builds' steps
\* up to here
GetAccountNonceAttempt(p) ==
  /\ pc[p] = "getAccountNonce"
  /\ \E o \in Answers(PendingNonces) :
       LET r == AfterAttempt(rpc[p], o)
           a == args[p]
           l == loc[p]
       IN
       /\ Answered(o)
       /\ IF ~LoopEnds(rpc[p].i, o.ok) THEN Retry(p, r)
          ELSE IF r.err # NoErr
          THEN /\ Continue(p, Return(a, l, r.err), Fin(r))
               /\ UNCHANGED <<swapNonce, issued>>
          ELSE
            LET n == getAccountNonceEnd(a, o.val, swapNonce[DcrmAddress])
                l1 == [l EXCEPT !.pending = Some(o.val),
                                !.seqCalls = IF n.seq THEN @ + 1 ELSE @,
                                !.order = IF n.seq THEN Append(@, "AdjustNonce")
                                          ELSE @]
            IN /\ swapNonce' = IF n.seq
                               THEN [swapNonce EXCEPT ![a.From] = n.nonce]
                               ELSE swapNonce
               /\ issued' = IF Custodial(a)
                            THEN Append(issued,
                                   [swap |-> a.SwapType # NoSwapType,
                                    nonce |-> n.nonce])
                            ELSE issued
               /\ Continue(p, setDefaultsGas([a EXCEPT !.Nonce = Some(n.nonce)],
                                             l1), Fin(r))
  /\ UNCHANGED <<calls, handOff>>

\* one attempt of the loop in getBalance (lines 166-172), called by
\* checkCoinBalance
GetBalanceAttempt(p) ==
  /\ pc[p] = "getBalance"
  /\ \E o \in Answers(CoinBalances) :
       LET r == AfterAttempt(rpc[p], o) IN
       /\ Answered(o)
       /\ IF LoopEnds(rpc[p].i, o.ok)
          THEN /\ Continue(p, buildTxEnd(args[p], loc[p], o.val, r.err),
                           Fin(r))
               /\ UNCHANGED <<swapNonce, issued>>
          ELSE Retry(p, r)
  /\ UNCHANGED <<calls, handOff>>

Step(p) ==
  \/ CheckTokenBalanceAttempt(p)
  \/ GetGasPriceAttempt(p)
  \/ GetAccountNonceAttempt(p)
  \/ GetBalanceAttempt(p)

\* one build of any intent, the gateway failing as often as it likes
Init == InitBuilds /\ failsLeft = -1 /\ handOff = FALSE

Next ==
  \/ \E src \in BOOLEAN, a \in Intents : pc[1] = "idle" /\ Call(1, src, a)
  \/ Step(1)

Spec == Init /\ [][Next]_vars

\* concurrent builds
ConcInit == InitBuilds /\ failsLeft = MaxFails /\ handOff = TRUE

ConcNext ==
  \E p \in Procs :
    \/ \E c \in ConcBuilds : Call(p, c[1], c[2])
    \/ Step(p)

ConcSpec == ConcInit /\ [][ConcNext]_vars

\* builds made one after the other on one bridge object or the other, each
\* on a new intent or on the intent of the build before
SeqInit == InitBuilds /\ failsLeft = -1 /\ handOff = FALSE

SeqNext ==
  \/ \E src \in BOOLEAN, a \in SeqIntents : Call(1, src, a)
  \/ \E src \in BOOLEAN : Recall(1, src)
  \/ Step(1)

SeqSpec == SeqInit /\ [][SeqNext]_vars

\* one build, its failed attempts counted: the gateway may fail more often
\* than a build has attempts.  An attempt returns, with an answer or with an
\* error, and the sleep between two attempts ends: a build that stands at an
\* attempt takes its next step.
MaxAttempts == 4 * retryRPCCount
LiveInit == InitBuilds /\ failsLeft = MaxAttempts /\ handOff = FALSE

LiveNext ==
  \/ \E src \in BOOLEAN, a \in SeqIntents : pc[1] = "idle" /\ Call(1, src, a)
  \/ Step(1)

LiveSpec == LiveInit /\ [][LiveNext]_vars /\ WF_vars(Step(1))

----------------------------------------------------------------------------
(* Properties *)

Called(p) == pc[p] # "idle"
Done(p) == pc[p] = "done"
Failed(p) == Done(p) /\ ret[p].err # NoErr
Built(p) == Done(p) /\ ~IsNil(ret[p].tx)
\* build p has made no network call
NoNetworkCall(p) == loc[p].order = <<>>
\* the direction of the intent does not fit the endpoint
Mismatch(p) ==
  \/ args0[p].SwapType = SwapinType /\ isSrc[p]
  \/ args0[p].SwapType = SwapoutType /\ ~isSrc[p]

\* C1, as stated: the nonces resolved for builds whose sender is the
\* custodial signer and whose nonce is unset are strictly increasing in the
\* order they are issued (so no two are equal), whatever the direction.
C1_AllCustodialNoncesIncrease ==
  \A i, j \in 1..Len(issued) : i < j => issued[i].nonce < issued[j].nonce

\* C1, amended: the nonces resolved for SwapIn and SwapOut builds whose
\* sender is the custodial signer and whose nonce is unset are strictly
\* increasing in the order they are issued, swap-in and swap-out together,
\* and no two such builds in flight hold the same nonce.
C1_SwapNoncesIncrease ==
  /\ \A i, j \in 1..Len(issued) :
       i < j /\ issued[i].swap /\ issued[j].swap
         => issued[i].nonce < issued[j].nonce
  /\ \A p, q \in Procs :
       /\ p # q
       /\ pc[p] = "getBalance" /\ pc[q] = "getBalance"
       /\ args0[p].SwapType # NoSwapType /\ args0[q].SwapType # NoSwapType
       /\ IsNil(args0[p].Nonce) /\ IsNil(args0[q].Nonce)
       /\ args[p].From = DcrmAddress /\ args[q].From = DcrmAddress
       => args[p].Nonce # args[q].Nonce

\* C1, witness: a swap-in and a swap-out of the custodial signer are in
\* flight together and both have their nonce
C1_Witness ==
  \E p, q \in Procs :
    /\ pc[p] = "getBalance" /\ pc[q] = "getBalance"
    /\ args0[p].SwapType = SwapinType /\ args0[q].SwapType = SwapoutType
    /\ loc[p].seqCalls = 1 /\ loc[q].seqCalls = 1
    /\ Len(issued) = 2

\* C2, as stated: a SwapIn build on the origin endpoint, or a SwapOut build
\* on the other endpoint, fails with the wrong-endpoint error, and has made
\* no network call.
C2_AlwaysDirectionError ==
  \A p \in Procs :
    Called(p) /\ Mismatch(p)
      => /\ Failed(p)
         /\ ret[p].err = ErrBuildSwapTxInWrongEndpoint
         /\ NoNetworkCall(p)

\* C2, amended: a SwapIn build on the origin endpoint, or a SwapOut build on
\* the other endpoint, always fails and makes no network call; the error is
\* the wrong-endpoint error if the intent carries no raw payload and its pair
\* is known, the unknown-pair error if it carries no raw payload and its
\* pair is unknown, and the forbidden-raw-payload error if it carries one.
C2_MismatchFailsOffline ==
  \A p \in Procs :
    Called(p) /\ Mismatch(p)
      => /\ Failed(p)
         /\ IsNil(ret[p].tx)
         /\ NoNetworkCall(p)
         /\ ret[p].err =
              IF ~IsNil(args0[p].Input) THEN ErrForbidInput
              ELSE IF args0[p].PairID \notin {"ERC", "COIN"}
              THEN ErrUnknownPairID
              ELSE ErrBuildSwapTxInWrongEndpoint

\* C2, witness: a SwapOut build on the non-origin endpoint has failed with
\* the wrong-endpoint error
C2_Witness ==
  \E p \in Procs :
    /\ Done(p) /\ args0[p].SwapType = SwapoutType /\ ~isSrc[p]
    /\ ret[p].err = ErrBuildSwapTxInWrongEndpoint

\* C3: when a build has failed with the wrong-endpoint error, the intent is
\* as the caller supplied it.
C3_DirectionErrorLeavesIntent ==
  \A p \in Procs :
    Done(p) /\ ret[p].err = ErrBuildSwapTxInWrongEndpoint
      => args[p] = args0[p]

\* C4: a build whose intent carries a raw payload and a swap direction fails
\* with the forbidden-raw-payload error, makes no network call and leaves
\* the intent as supplied.
C4_RawPayloadOnSwapFails ==
  \A p \in Procs :
    Called(p) /\ ~IsNil(args0[p].Input) /\ args0[p].SwapType # NoSwapType
      => /\ Failed(p)
         /\ IsNil(ret[p].tx)
         /\ ret[p].err = ErrForbidInput
         /\ NoNetworkCall(p)
         /\ args[p] = args0[p]

\* C4, witness: a SwapOut build with a raw payload, on the origin endpoint,
\* has failed
C4_Witness ==
  \E p \in Procs :
    /\ Done(p) /\ args0[p].Input = Some(RawInput)
    /\ args0[p].SwapType = SwapoutType /\ isSrc[p]
    /\ ret[p].err = ErrForbidInput

\* C5: when a build has failed, recipient and payload of the intent are as
\* the caller supplied them.
C5_FailureLeavesRecipientAndPayload ==
  \A p \in Procs :
    Failed(p) => args[p].To = args0[p].To /\ args[p].Input = args0[p].Input

\* C6: a swap build returns a Transaction only if its bind address is well
\* formed and not the zero address.
C6_SwapTransactionHasValidBind ==
  \A p \in Procs :
    Built(p) /\ args0[p].SwapType # NoSwapType
      => args0[p].Bind \notin {"", "0x00", "0xB1zz"}

\* C7: a retried RPC operation makes at most 3 attempts; it goes round
\* again only after a failed attempt; when it ends after a successful
\* attempt it returns no error, and when it ends after a failed attempt it
\* has made exactly 3 attempts and returns the error of the last one.
C7_RetryPolicy ==
  \A p \in Procs :
    LET f == rpc[p].fin IN
    /\ rpc[p].i <= 2
    /\ rpc[p].i > 0 => rpc[p].last # NoErr
    /\ f.op # "" =>
         /\ f.op \in {"checkTokenBalance", "getGasPrice", "getAccountNonce",
                      "getBalance"}
         /\ f.attempts \in 1..3
         /\ f.last = NoErr => f.err = NoErr
         /\ f.last # NoErr => f.attempts = 3 /\ f.err = f.last

\* C7, witness: the gas price fetch has ended after three failed attempts
C7_Witness ==
  \E p \in Procs :
    /\ rpc[p].fin.op = "getGasPrice" /\ rpc[p].fin.attempts = 3
    /\ rpc[p].fin.err = ErrRPC("refused")
    /\ ret[p].err = ErrRPC("refused")

\* C8: once the balance is fetched, the build returns a Transaction if the
\* balance is at least value + fee and fails with the insufficient-balance
\* error otherwise (balance 100, value 30, fee 10 passes; balance 39 fails,
\* required 40); no Transaction is returned without that check having passed.
C8_CoinBalanceCheck ==
  \A p \in Procs :
    LET l == loc[p]
        required == AmtAdd(l.value, l.gasFee)
    IN
    /\ Built(p) => ~IsNil(l.bal) /\ ~AmtLess(Val(l.bal), required)
    /\ Done(p) /\ ~IsNil(l.bal) =>
         IF AmtLess(Val(l.bal), required)
         THEN ret[p].err = ErrCoinBalance /\ IsNil(ret[p].tx)
         ELSE Built(p) /\ ret[p].err = NoErr
    /\ Done(p) /\ l.value = Amt(0, 30) /\ l.gasFee = Amt(0, 10) =>
         /\ l.bal = Some(Amt(0, 100)) => Built(p)
         /\ l.bal = Some(Amt(0, 39)) =>
              ret[p].err = ErrCoinBalance /\ l.need = Amt(0, 40)

\* C8, witness: balance 39, value 30, fee 10 has failed
C8_Witness ==
  \E p \in Procs :
    /\ Done(p) /\ loc[p].bal = Some(Amt(0, 39))
    /\ loc[p].value = Amt(0, 30) /\ loc[p].gasFee = Amt(0, 10)
    /\ ret[p].err = ErrCoinBalance

\* build p has come to the coin balance check
AtCoinBalance(p) == \E i \in 1..Len(loc[p].order) : loc[p].order[i] = "getBalance"

\* C9: the fee of the coin balance check is gas price x gas limit, as
\* resolved, for direction None, and 1e16 for SwapIn and SwapOut.
C9_FeeByDirection ==
  \A p \in Procs :
    AtCoinBalance(p) =>
      loc[p].gasFee =
        IF args0[p].SwapType = NoSwapType
        THEN Amt(0, Val(args[p].GasPrice) * Val(args[p].Gas))
        ELSE Amt(1, 0)

\* C9, witness: a SwapIn build with gas price 110 and gas limit 90000, both
\* resolved, checks the balance against the reserve
C9_Witness ==
  \E p \in Procs :
    /\ AtCoinBalance(p) /\ args0[p].SwapType = SwapinType
    /\ args[p].GasPrice = Some(110) /\ args[p].Gas = Some(90000)
    /\ loc[p].gasFee = Amt(1, 0)

\* build p is a SwapOut of the native-coin pair
NativeSwapOut(p) ==
  args0[p].SwapType = SwapoutType /\ args0[p].PairID = "COIN"

\* C10: a native-coin SwapOut build transfers convert(pairId, originValue,
\* outOfDestination), requires that value plus the reserve, and fails with
\* the insufficient-balance error when the balance is below the sum.
C10_NativeSwapOutValue ==
  \A p \in Procs :
    NativeSwapOut(p) /\ AtCoinBalance(p) =>
      LET v == CalcSwappedValue(args0[p].PairID, args0[p].OriginValue, FALSE)
          required == AmtAdd(v, Amt(1, 0))
      IN /\ loc[p].value = v
         /\ Built(p) => Val(ret[p].tx).value = v
         /\ Done(p) /\ ~IsNil(loc[p].bal) =>
              /\ loc[p].need = required
              /\ AmtLess(Val(loc[p].bal), required) =>
                   ret[p].err = ErrCoinBalance /\ IsNil(ret[p].tx)

\* C10, witness: a native-coin SwapOut with one wei less than value plus
\* reserve has failed
C10_Witness ==
  \E p \in Procs :
    /\ NativeSwapOut(p) /\ Done(p)
    /\ loc[p].value = Amt(0, 35) /\ loc[p].bal = Some(Amt(1, 34))
    /\ ret[p].err = ErrCoinBalance

\* build p had its nonce left unset and has fetched the pending nonce
NonceFetched(p) ==
  Called(p) /\ IsNil(args0[p].Nonce) /\ ~IsNil(loc[p].pending)

\* the nonce the sequencer had issued last before the k-th nonce of the
\* history (-1: none)
SeqLast(k) ==
  LET S == {i \in 1..(k - 1) : issued[i].swap} IN
  IF S = {} THEN -1
  ELSE issued[CHOOSE i \in S : \A j \in S : j <= i].nonce

\* the nonce of build p is the fetched pending nonce passed through the
\* sequencer, called once
Sequenced(p) ==
  /\ loc[p].seqCalls = 1
  /\ args[p].Nonce =
       Some(AdjustNonce(SeqLast(Len(issued)), Val(loc[p].pending)))
\* the nonce of build p is the fetched pending nonce, the sequencer not called
NotSequenced(p) ==
  /\ loc[p].seqCalls = 0
  /\ args[p].Nonce = loc[p].pending

\* C11, as stated: with the nonce unset, a build whose sender is the pair's
\* custodial address gets the fetched pending nonce passed through the
\* sequencer, called exactly once in the build; any other build gets the
\* fetched pending nonce.
C11_CustodialSenderSequenced ==
  \A p \in Procs :
    NonceFetched(p) =>
      IF Custodial(args[p]) THEN Sequenced(p) ELSE NotSequenced(p)

\* C11, amended: with the nonce unset, a SwapIn or SwapOut build whose
\* sender is the pair's custodial address gets the fetched pending nonce
\* passed through the sequencer, called exactly once in the build; a build
\* of another sender, and a build with direction None of any sender, gets
\* the fetched pending nonce and does not call the sequencer.
C11_SwapOfCustodialSenderSequenced ==
  \A p \in Procs :
    NonceFetched(p) =>
      IF args[p].SwapType # NoSwapType /\ Custodial(args[p])
      THEN Sequenced(p) ELSE NotSequenced(p)

\* C11, witness: the second of two swap builds of the custodial signer has
\* fetched pending nonce 0 and has got nonce 2 from the sequencer, which had
\* issued 1 to the first
C11_Witness ==
  \E p \in Procs :
    /\ NonceFetched(p) /\ args[p].SwapType = SwapoutType
    /\ Custodial(args[p]) /\ loc[p].seqCalls = 1
    /\ loc[p].pending = Some(0) /\ args[p].Nonce = Some(2)

\* build p had its gas price left unset and has fetched the suggested price
GasPriceFetched(p) ==
  Called(p) /\ IsNil(args0[p].GasPrice) /\ ~IsNil(loc[p].suggested)

\* C12: with the gas price unset, the resolved gas price of a SwapIn or
\* SwapOut build is floor(suggested * (100 + markupPct) / 100), markupPct
\* being the markup of the build's pair (suggested 100 at 10 percent gives
\* 110, suggested 99 at 10 percent gives 108), and the resolved gas price of
\* a build with direction None is the suggested price.
C12_GasPriceMarkup ==
  \A p \in Procs :
    GasPriceFetched(p) =>
      LET suggested == Val(loc[p].suggested) IN
      IF args0[p].SwapType = NoSwapType
      THEN args[p].GasPrice = Some(suggested)
      ELSE /\ args0[p].PairID \in DOMAIN TokenConfigs
           /\ LET markupPct ==
                    TokenConfigs[args0[p].PairID].PlusGasPricePercentage
              IN /\ args[p].GasPrice =
                      Some((suggested * (100 + markupPct)) \div 100)
                 /\ markupPct = 10 /\ suggested = 100 =>
                      args[p].GasPrice = Some(110)
                 /\ markupPct = 10 /\ suggested = 99 =>
                      args[p].GasPrice = Some(108)

\* C12, witness: a SwapIn build of the pair with markup 10 has fetched the
\* suggested price 99 and has gas price 108
C12_Witness ==
  \E p \in Procs :
    /\ GasPriceFetched(p) /\ args0[p].SwapType = SwapinType
    /\ args0[p].PairID = "ERC" /\ loc[p].suggested = Some(99)
    /\ args[p].GasPrice = Some(108)

\* build p is a SwapOut of the token pair
TokenSwapOut(p) ==
  args0[p].SwapType = SwapoutType /\ args0[p].PairID = "ERC"

\* C13: a token SwapOut build returns a Transaction only if it has fetched
\* the custodial signer's token balance and found it at least
\* convert(pairId, originValue, outOfDestination); if the balance is lower,
\* or its fetch has failed after the retries, the build fails, and the token
\* balance fetch is the only network call it has made.
C13_TokenBalanceCheck ==
  \A p \in Procs :
    TokenSwapOut(p) /\ Called(p) =>
      LET amount ==
            CalcSwappedValue(args0[p].PairID, args0[p].OriginValue, FALSE)
          bal == loc[p].tokBal
          f == rpc[p].fin
      IN /\ Built(p) => ~IsNil(bal) /\ ~AmtLess(Val(bal), amount)
         /\ loc[p].order # <<>> => loc[p].order[1] = "checkTokenBalance"
         /\ Len(loc[p].order) > 1 => ~IsNil(bal) /\ ~AmtLess(Val(bal), amount)
         /\ ~IsNil(bal) /\ AmtLess(Val(bal), amount) =>
              /\ Failed(p) /\ IsNil(ret[p].tx)
              /\ ret[p].err = ErrTokenBalance
              /\ loc[p].order = <<"checkTokenBalance">>
         /\ f.op = "checkTokenBalance" /\ f.err # NoErr =>
              /\ Failed(p) /\ IsNil(ret[p].tx)
              /\ ret[p].err = f.err
              /\ loc[p].order = <<"checkTokenBalance">>

\* C13, witness: a token SwapOut of amount 35 has found the token balance 34
\* and has failed
C13_Witness ==
  \E p \in Procs :
    /\ TokenSwapOut(p) /\ Done(p)
    /\ loc[p].amount = Amt(0, 35) /\ loc[p].tokBal = Some(Amt(0, 34))
    /\ ret[p].err = ErrTokenBalance

\* C14: a Transaction built for a swap has the recipient and the payload of
\* its leg.  SwapIn: the pair's token contract, and the call of (swap-id
\* hash, bind address, convert(pairId, originValue, intoDestination)).
\* Token SwapOut: the pair's token contract, and transfer(bind address,
\* convert(pairId, originValue, outOfDestination)).  Native-coin SwapOut: the
\* bind address, and the fixed marker followed by the swap identifier.
C14_RecipientAndPayloadByLeg ==
  \A p \in Procs :
    Built(p) /\ args0[p].SwapType # NoSwapType =>
      LET a == args0[p]
          tx == Val(ret[p].tx)
          cfg == TokenConfigs[a.PairID]
      IN /\ a.PairID \in DOMAIN TokenConfigs
         /\ a.SwapType = SwapinType =>
              /\ tx.to = HexToAddress(cfg.ContractAddress)
              /\ tx.input =
                   [fn |-> "Swapin", hash |-> HexToHash(a.SwapID),
                    addr |-> HexToAddress(a.Bind),
                    amount |-> CalcSwappedValue(a.PairID, a.OriginValue, TRUE),
                    memo |-> <<>>]
         /\ a.SwapType = SwapoutType /\ cfg.IsErc20 =>
              /\ tx.to = HexToAddress(cfg.ContractAddress)
              /\ tx.input =
                   [fn |-> "transfer", hash |-> "",
                    addr |-> HexToAddress(a.Bind),
                    amount |-> CalcSwappedValue(a.PairID, a.OriginValue, FALSE),
                    memo |-> <<>>]
         /\ a.SwapType = SwapoutType /\ ~cfg.IsErc20 =>
              /\ tx.to = HexToAddress(a.Bind)
              /\ tx.input =
                   [fn |-> "", hash |-> "", addr |-> "", amount |-> Zero,
                    memo |-> <<"SWAPTO:", a.SwapID>>]

\* C14, witness: a SwapIn of origin value 40 to bind address B1 is built:
\* its recipient is the token contract and its payload carries 37
C14_Witness ==
  \E p \in Procs :
    /\ Built(p) /\ args0[p].SwapType = SwapinType /\ args0[p].PairID = "ERC"
    /\ Val(ret[p].tx).to = "C0"
    /\ Val(ret[p].tx).input.addr = "B1"
    /\ Val(ret[p].tx).input.amount = Amt(0, 37)

\* C15: with the gas limit unset, the resolved gas limit is the default gas
\* limit of the pair's configuration if the pair is known and that default
\* is not zero, and 90000 otherwise; the gas limit is resolved without a
\* network call and without failing: once gas price and nonce are resolved
\* the build has the gas limit and is at the coin balance check.
C15_DefaultGasLimit ==
  \A p \in Procs :
    Called(p) /\ IsNil(args0[p].Gas) =>
      LET pairID == args0[p].PairID
          known == pairID \in DOMAIN TokenConfigs
      IN /\ ~IsNil(args[p].Gas) =>
              /\ args[p].Gas =
                   Some(IF known /\ TokenConfigs[pairID].DefaultGasLimit # 0
                        THEN TokenConfigs[pairID].DefaultGasLimit
                        ELSE 90000)
              /\ AtCoinBalance(p)
         /\ AtCoinBalance(p) => ~IsNil(args[p].Gas)
         /\ ~IsNil(loc[p].pending) => AtCoinBalance(p)
         /\ ~IsNil(loc[p].suggested) /\ ~IsNil(args0[p].Nonce) =>
              AtCoinBalance(p)
         /\ \A i \in 1..Len(loc[p].order) :
              loc[p].order[i] \in {"checkTokenBalance", "getGasPrice",
                                   "getAccountNonce", "AdjustNonce",
                                   "getBalance"}

\* C15, witness: a build of the pair whose configured default is zero has
\* the gas limit 90000
C15_Witness ==
  \E p \in Procs :
    /\ Called(p) /\ IsNil(args0[p].Gas) /\ args0[p].PairID = "ERC"
    /\ args[p].Gas = Some(90000) /\ pc[p] = "getBalance"

\* op is among the external steps build p has made
Made(p, op) == \E i \in 1..Len(loc[p].order) : loc[p].order[i] = op

\* C16: a nonce, a gas price or a gas limit that the intent supplies stays
\* as supplied and is the one of the returned Transaction; no pending nonce
\* is fetched and the sequencer is not called for a supplied nonce, even
\* that of the custodial signer; no price is fetched and no markup is
\* applied for a supplied gas price.
C16_SuppliedFieldsUnchanged ==
  \A p \in Procs :
    Called(p) =>
      /\ ~IsNil(args0[p].Nonce) =>
           /\ args[p].Nonce = args0[p].Nonce
           /\ ~Made(p, "getAccountNonce") /\ ~Made(p, "AdjustNonce")
           /\ loc[p].seqCalls = 0 /\ IsNil(loc[p].pending)
           /\ swapNonce[DcrmAddress] = -1 /\ issued = <<>>
           /\ Built(p) => Val(ret[p].tx).nonce = Val(args0[p].Nonce)
      /\ ~IsNil(args0[p].GasPrice) =>
           /\ args[p].GasPrice = args0[p].GasPrice
           /\ ~Made(p, "getGasPrice") /\ IsNil(loc[p].suggested)
           /\ Built(p) => Val(ret[p].tx).gasPrice = Val(args0[p].GasPrice)
      /\ ~IsNil(args0[p].Gas) =>
           /\ args[p].Gas = args0[p].Gas
           /\ Built(p) => Val(ret[p].tx).gasLimit = Val(args0[p].Gas)

\* C16, witness: a SwapIn of the custodial signer on the pair with markup
\* 10, nonce 7, gas price 10 and gas limit 1 supplied, is built with them
C16_Witness ==
  \E p \in Procs :
    /\ Built(p) /\ args0[p].SwapType = SwapinType /\ args0[p].PairID = "ERC"
    /\ args[p].From = DcrmAddress
    /\ args0[p].Nonce = Some(7) /\ args0[p].GasPrice = Some(10)
    /\ args0[p].Gas = Some(1)
    /\ Val(ret[p].tx).nonce = 7 /\ Val(ret[p].tx).gasPrice = 10
    /\ Val(ret[p].tx).gasLimit = 1

\* the build of p has run a payload builder past the check of the bind
\* address: it is a SwapIn or a token SwapOut on the right endpoint, of a
\* known pair, without a raw payload and with a good bind address
RanPayloadBuilder(p) ==
  /\ Called(p) /\ IsNil(args0[p].Input) /\ ~Mismatch(p)
  /\ args0[p].PairID \in DOMAIN TokenConfigs
  /\ \/ args0[p].SwapType = SwapinType
     \/ args0[p].SwapType = SwapoutType
          /\ TokenConfigs[args0[p].PairID].IsErc20
  /\ ~BadBindAddress(args0[p].Bind)

\* C17: a build that has run its payload builder leaves a payload in the
\* intent, whether it goes on, succeeds or fails; and every later call on an
\* intent an earlier build has packed a payload into fails with the
\* forbidden-raw-payload error, makes no network call and leaves the intent
\* as it found it.
C17_RebuildFails ==
  \A p \in Procs :
    /\ RanPayloadBuilder(p) =>
         ~IsNil(args[p].Input) /\ args[p].SwapType # NoSwapType
    /\ RanPayloadBuilder(p) /\ Done(p) => PayloadPacked(args0[p], args[p])
    /\ loc[p].packed =>
         /\ Failed(p) /\ IsNil(ret[p].tx)
         /\ ret[p].err = ErrForbidInput
         /\ NoNetworkCall(p)
         /\ args[p] = args0[p]

\* C17, witness: the second call on the intent of a token SwapOut has failed
\* with the forbidden-raw-payload error
C17_Witness ==
  \E p \in Procs :
    /\ loc[p].packed /\ Done(p) /\ calls = 2
    /\ args[p].SwapType = SwapoutType /\ args[p].PairID = "ERC"
    /\ ret[p].err = ErrForbidInput

\* the place of an external step in the order of the build
Rank(op) ==
  CASE op = "checkTokenBalance" -> 1
    [] op = "getGasPrice" -> 2
    [] op = "getAccountNonce" -> 3
    [] op = "AdjustNonce" -> 4
    [] op = "getBalance" -> 5
    [] OTHER -> 0

\* the external steps of build p so far are in the order token balance, gas
\* price, pending nonce, sequencer, coin balance, each made once at most;
\* the token balance is checked by a token SwapOut only; the sequencer is
\* called right after the pending nonce is fetched
StepsInOrder(p) ==
  LET o == loc[p].order IN
  /\ \A i \in 1..Len(o) : Rank(o[i]) > 0
  /\ \A i, j \in 1..Len(o) : i < j => Rank(o[i]) < Rank(o[j])
  /\ Made(p, "checkTokenBalance") =>
       /\ args[p].SwapType = SwapoutType
       /\ args[p].PairID \in DOMAIN TokenConfigs
       /\ TokenConfigs[args[p].PairID].IsErc20
  /\ \A i \in 1..Len(o) :
       o[i] = "AdjustNonce" => i > 1 /\ o[i - 1] = "getAccountNonce"

\* build p is a swap of the custodial signer with the nonce left unset and
\* has come to the coin balance check
SequencedAtCoinBalance(p) ==
  /\ Called(p) /\ IsNil(args0[p].Nonce) /\ args[p].SwapType # NoSwapType
  /\ Custodial(args[p]) /\ Made(p, "getBalance")

NetOps(p) ==
  {i \in 1..Len(loc[p].order) : loc[p].order[i] # "AdjustNonce"}

\* the RPC attempts build p has made: the failed ones, and one for each
\* operation that has ended with an answer
Attempts(p) ==
  (MaxAttempts - failsLeft)
  + Cardinality(NetOps(p))
  - (IF Done(p) THEN (IF rpc[p].fin.err # NoErr THEN 1 ELSE 0) ELSE 1)

\* C19: a build makes at most 3 attempts of each of token balance, gas
\* price, pending nonce and coin balance, each operation once at most, so at
\* most 12 attempts in all, however often the gateway fails; and every call
\* returns, a Transaction or an error.
C19_BoundedAttemptsAndTermination ==
  /\ [](\A p \in Procs :
          Called(p) =>
            /\ failsLeft > 0
            /\ rpc[p].i < 3 /\ rpc[p].fin.attempts <= 3
            /\ Cardinality(NetOps(p)) <= 4
            /\ \A i, j \in NetOps(p) :
                 i # j => loc[p].order[i] # loc[p].order[j]
            /\ Attempts(p) <= 12
            /\ Done(p) => (Built(p) /\ ret[p].err = NoErr)
                           \/ (Failed(p) /\ IsNil(ret[p].tx)))
  /\ \A p \in Procs : Called(p) ~> Done(p)

\* C19, witness: a build has returned a Transaction after 12 attempts
C19_Witness ==
  \E p \in Procs : Built(p) /\ Attempts(p) = 12

====
